---- MODULE Spec2Model ----
(***************************************************************************)
(* Model of genetic-algo.py: the Ingredient / Recipe data model, the four  *)
(* mutation operators, normalize, crossover and the generation loop of     *)
(* RecipeManager.                                                          *)
(*                                                                         *)
(* Amounts are floats in the program.  Here an amount is a natural number  *)
(* of half-hundredths of an ounce (Cent units make 0.01 oz), the value u   *)
(* standing for the reals in [u, u+1) units; NaN is the float nan.  Every  *)
(* ingredient carries the run-time type of its amount (np = TRUE for a     *)
(* numpy scalar, FALSE for a Python float), because division by a zero     *)
(* total raises ZeroDivisionError for Python numbers and yields inf for    *)
(* numpy scalars.  Amounts are never negative: the seed amounts are not,   *)
(* and no operator changes the sign of an amount.                          *)
(***************************************************************************)
EXTENDS Integers, Sequences, FiniteSets, TLC

VARIABLES recipes, new_recipes, num_new_recipes, all_ingredients,
          generations, gen, pc, err, recipe, op, calls

vars == <<recipes, new_recipes, num_new_recipes, all_ingredients,
          generations, gen, pc, err, recipe, op, calls>>

(* ------------------------------ bounds --------------------------------- *)

\* largest number of generations asked for
MaxGen == 2

\* largest number of lines of a raw recipe handed to the Recipe constructor
MaxLines == 2

\* largest number of operator calls made on one Recipe object
MaxCalls == 2

(* --------------------------- amounts ----------------------------------- *)

\* units per 0.01 oz
Cent == 2

Oz == 100 * Cent

\* the float nan
NaN == 0 - 1

\* the total normalize scales to (line 129, line 131)
Hundred == 100 * Oz

\* float addition
FAdd(x, y) == IF x = NaN \/ y = NaN THEN NaN ELSE x + y

\* round(amount, 2): the nearest multiple of 0.01 oz
Round2(x) == IF x = NaN THEN NaN ELSE ((x + (Cent \div 2)) \div Cent) * Cent

(* --------------------------- Ingredient -------------------------------- *)

Ingredient(name, amount, np) == [name |-> name, amount |-> amount, np |-> np]

set_amount(ing, amount, np) == [ing EXCEPT !.amount = amount, !.np = np]

set_name(ing, name) == [ing EXCEPT !.name = name]

\* str(ingredient): "<amount rounded to 2 places> oz <name>"
IngredientStr(ing) == [amt |-> Round2(ing.amount), name |-> ing.name]

(* ----------------------------- Recipe ---------------------------------- *)

RECURSIVE IndexOfName(_, _, _)
\* position of the ingredient called name in ings at or after i, 0 if none
IndexOfName(ings, name, i) ==
    IF i > Len(ings) THEN 0
    ELSE IF ings[i].name = name THEN i
    ELSE IndexOfName(ings, name, i + 1)

RECURSIVE MergeLines(_, _, _)
MergeLines(lines, i, dic) ==
    IF i > Len(lines) THEN dic
    ELSE LET k == IndexOfName(dic, lines[i].name, 1)
         IN  IF k = 0
             THEN MergeLines(lines, i + 1,
                      Append(dic, Ingredient(lines[i].name, lines[i].amt, FALSE)))
             ELSE MergeLines(lines, i + 1,
                      [dic EXCEPT ![k].amount = FAdd(dic[k].amount, lines[i].amt)])

\* one Ingredient per distinct name, in order of first appearance, the
\* amounts of equal names summed; the amounts are Python floats
make_ingredient_objects(recipe_strs) == MergeLines(recipe_strs, 1, <<>>)

get_fitness(ings) == Len(ings)

get_ingredient_strings(ings) == [i \in 1..Len(ings) |-> IngredientStr(ings[i])]

NamesOf(ings) == {ings[i].name : i \in 1..Len(ings)}

RemoveAt(s, i) == SubSeq(s, 1, i - 1) \o SubSeq(s, i + 1, Len(s))

\* result of a call on a Recipe: its ingredients after the call and the
\* exception the call raised ("none" when it returned)
Ok(ings) == [ingredients |-> ings, err |-> "none"]

Raise(ings, e) == [ingredients |-> ings, err |-> e]

\* random.uniform(-.9, .9) + 1, in percent
Factors == {10, 190}

\* np.random.choice(range(0, 100)), in oz
AddAmounts == {0, 50}

\* float multiplication by a factor given in percent
Times(amount, f) == IF amount = NaN THEN NaN ELSE (amount * f) \div 100

change_amount(ings) ==
    IF ings = <<>>
    THEN {Raise(ings, "ValueError")}
    ELSE {Ok([ings EXCEPT ![i] = set_amount(ings[i], Times(ings[i].amount, f), ings[i].np)]) :
              i \in 1..Len(ings), f \in Factors}

add_ingredient(ings, all) ==
    IF all \ NamesOf(ings) = {}
    THEN {Ok(ings)}
    ELSE {Ok(Append(ings, Ingredient(new_name, new_amt * Oz, TRUE))) :
              new_name \in all, new_amt \in AddAmounts}

delete_ingredient(ings) ==
    IF ings = <<>>
    THEN {Raise(ings, "IndexError")}
    ELSE {Ok(RemoveAt(ings, i)) : i \in 1..Len(ings)}

swap_ingredient(ings, all) ==
    IF ings = <<>>
    THEN {Raise(ings, "IndexError")}
    ELSE UNION {IF all \ {ings[i].name} = {}
                THEN {Raise(ings, "IndexError")}
                ELSE {Ok([ings EXCEPT ![i] = set_name(ings[i], new_name)]) :
                          new_name \in all \ {ings[i].name}} :
                i \in 1..Len(ings)}

RECURSIVE Sum(_, _)
\* current_total after the first i ingredients
Sum(ings, i) == IF i = 0 THEN 0 ELSE FAdd(Sum(ings, i - 1), ings[i].amount)

\* the total is a numpy scalar as soon as one amount is
NumpyTotal(ings) == \E i \in 1..Len(ings) : ings[i].np

\* amount * (100 / total) for a total that is not zero: the integer part of
\* amount * Hundred / total, computed in steps that stay within 32 bits
Scaled(amount, total) ==
    IF amount = NaN \/ total = NaN THEN NaN
    ELSE LET h == (amount % total) * 100
         IN  (amount \div total) * Hundred + (h \div total) * Oz
                 + ((h % total) * Oz) \div total

RECURSIVE NormalizeLoop(_, _, _, _)
\* the for loop of lines 132-137 over the list it shrinks: the iterator is
\* at position i, and a removal moves the rest of the list one place down
NormalizeLoop(ings, i, total, np) ==
    IF i > Len(ings) THEN ings
    ELSE LET new_amt == IF total = 0 THEN NaN ELSE Scaled(ings[i].amount, total)
         IN  IF new_amt /= NaN /\ new_amt < Cent
             THEN NormalizeLoop(RemoveAt(ings, i), i + 1, total, np)
             ELSE NormalizeLoop([ings EXCEPT ![i] = set_amount(ings[i], new_amt, np)],
                                i + 1, total, np)

normalize(ings) ==
    LET current_total == Sum(ings, Len(ings))
        np == NumpyTotal(ings)
    IN  IF current_total = Hundred THEN Ok(ings)
        ELSE IF current_total = 0 /\ ~np THEN Raise(ings, "ZeroDivisionError")
        ELSE Ok(NormalizeLoop(ings, 1, current_total, np))

\* the mutation followed by normalize; an exception of the mutation skips it
ThenNormalize(o) == IF o.err /= "none" THEN o ELSE normalize(o.ingredients)

mutate(ings, all) ==
    {Ok(ings)}
    \cup {ThenNormalize(o) : o \in change_amount(ings)}
    \cup {ThenNormalize(o) : o \in add_ingredient(ings, all)}
    \cup {ThenNormalize(o) : o \in delete_ingredient(ings)}
    \cup {ThenNormalize(o) : o \in swap_ingredient(ings, all)}

(* -------------------------- RecipeManager ------------------------------ *)

Recipe(id, recipe_strs) == [id |-> id, ingredients |-> make_ingredient_objects(recipe_strs)]

Line(amt, name) == [amt |-> amt, name |-> name]

\* contents of some files of an input directory, parsed line by line
FileEmpty == <<>>

FileA == <<Line(100 * Oz, "a")>>

FileAB == <<Line(50 * Oz, "a"), Line(50 * Oz, "b")>>

FileDup == <<Line(1 * Oz, "a"), Line(2 * Oz, "a")>>

\* the input directories the runs start from
SeedCorpora ==
    { <<>>,
      <<FileA>>,
      <<FileEmpty, FileEmpty>>,
      <<FileEmpty, FileAB>>,
      <<FileA, FileAB>>,
      <<FileDup, FileDup, FileDup>> }

\* parse_files: one Recipe per file, numbered from 0
parse_files(files) == [k \in 1..Len(files) |-> Recipe(k - 1, files[k])]

\* get_unique_ingredients: the names of the initial population
get_unique_ingredients(rs) == UNION {NamesOf(rs[k].ingredients) : k \in 1..Len(rs)}

RECURSIVE SumFit(_, _)
SumFit(rs, k) == IF k = 0 THEN 0 ELSE SumFit(rs, k - 1) + get_fitness(rs[k].ingredients)

\* lines 248-251: the two parents, as positions in self.recipes
select_pair(rs) ==
    LET sum_fit == SumFit(rs, Len(rs))
        nonzero == {k \in 1..Len(rs) : get_fitness(rs[k].ingredients) > 0}
    IN  IF sum_fit = 0 THEN [pairs |-> {}, err |-> "ZeroDivisionError"]
        ELSE IF Len(rs) < 2 \/ Cardinality(nonzero) < 2
             THEN [pairs |-> {}, err |-> "ValueError"]
        ELSE [pairs |-> {<<i, j>> : i \in nonzero, j \in nonzero} \ {<<i, i>> : i \in nonzero},
              err |-> "none"]

Min(a, b) == IF a < b THEN a ELSE b

\* the offspring of recipe1 and recipe2, numbered num, for every pivot and
\* every mutation; num is the value of num_new_recipes after the call
crossover(recipe1, recipe2, num, all) ==
    LET shortest_recipe_len == Min(get_fitness(recipe1.ingredients),
                                   get_fitness(recipe2.ingredients))
        recipe1_strs == get_ingredient_strings(recipe1.ingredients)
        recipe2_strs == get_ingredient_strings(recipe2.ingredients)
        cross(pivot) == SubSeq(recipe1_strs, 1, pivot)
                            \o SubSeq(recipe2_strs, pivot + 1, Len(recipe2_strs))
    IN  IF shortest_recipe_len = 0
        THEN {[recipe |-> recipe1, err |-> "ValueError", num |-> num]}
        ELSE {[recipe |-> [id |-> num, ingredients |-> o.ingredients],
               err |-> o.err, num |-> num + 1] :
                  o \in UNION {mutate(Recipe(num, cross(pivot)).ingredients, all) :
                                  pivot \in 0..(shortest_recipe_len - 1)}}

RECURSIVE Insert(_, _)
\* r placed after every recipe of the ascending list that is not fitter
Insert(sorted, r) ==
    IF sorted = <<>> THEN <<r>>
    ELSE IF get_fitness(sorted[Len(sorted)].ingredients) <= get_fitness(r.ingredients)
         THEN Append(sorted, r)
         ELSE Append(Insert(SubSeq(sorted, 1, Len(sorted) - 1), r), sorted[Len(sorted)])

RECURSIVE SortedByFitness(_, _)
\* sorted(recipes, key = get_fitness) of the first k recipes: ascending, stable
SortedByFitness(rs, k) ==
    IF k = 0 THEN <<>> ELSE Insert(SortedByFitness(rs, k - 1), rs[k])

\* an upper half that truncates: the last floor(n/2) recipes
fittest_half_floor(rs) ==
    LET sorted_recipes == SortedByFitness(rs, Len(rs))
    IN  SubSeq(sorted_recipes, (Len(rs) - (Len(rs) \div 2)) + 1, Len(rs))

\* the slice taken from the wrong end: the least fit recipes
fittest_half_lower(rs) ==
    LET sorted_recipes == SortedByFitness(rs, Len(rs))
    IN  SubSeq(sorted_recipes, 1, Len(rs) - (Len(rs) \div 2))

fittest_half(rs) ==
    LET sorted_recipes == SortedByFitness(rs, Len(rs))
    IN  SubSeq(sorted_recipes, (Len(rs) \div 2) + 1, Len(rs))

(* ------------------- the program: main and the loop -------------------- *)

Init ==
    /\ \E files \in SeedCorpora :
          /\ recipes = parse_files(files)
          /\ num_new_recipes = Len(files)
          /\ all_ingredients = get_unique_ingredients(parse_files(files))
    /\ generations \in 0..MaxGen
    /\ new_recipes = <<>>
    /\ gen = 0
    /\ pc = "run"
    /\ err = "none"
    /\ recipe = <<>>
    /\ op = "none"
    /\ calls = 0

InLoop == pc = "run" /\ gen < generations /\ Len(new_recipes) < Len(recipes)

\* an iteration of the loop of genetic_algo whose parent selection raises
SelectFails ==
    /\ InLoop
    /\ select_pair(recipes).err /= "none"
    /\ pc' = "failed_select"
    /\ err' = select_pair(recipes).err
    /\ UNCHANGED <<recipes, new_recipes, num_new_recipes, all_ingredients,
                   generations, gen, recipe, op, calls>>

\* an iteration that also appends the offspring to self.recipes
OffspringInserted ==
    /\ InLoop
    /\ select_pair(recipes).err = "none"
    /\ \E pair \in select_pair(recipes).pairs :
          \E o \in crossover(recipes[pair[1]], recipes[pair[2]],
                             num_new_recipes, all_ingredients) :
             /\ o.err = "none"
             /\ new_recipes' = Append(new_recipes, o.recipe)
             /\ recipes' = Append(recipes, o.recipe)
             /\ num_new_recipes' = o.num
    /\ UNCHANGED <<all_ingredients, generations, gen, pc, err, recipe, op, calls>>

\* an iteration of the loop of genetic_algo that appends an offspring
Offspring ==
    /\ InLoop
    /\ select_pair(recipes).err = "none"
    /\ \E pair \in select_pair(recipes).pairs :
          \E o \in crossover(recipes[pair[1]], recipes[pair[2]],
                             num_new_recipes, all_ingredients) :
             /\ o.err = "none"
             /\ new_recipes' = Append(new_recipes, o.recipe)
             /\ num_new_recipes' = o.num
    /\ UNCHANGED <<recipes, all_ingredients, generations, gen, pc, err,
                   recipe, op, calls>>

\* an iteration of the loop of genetic_algo whose crossover or mutation raises
CrossoverFails ==
    /\ InLoop
    /\ select_pair(recipes).err = "none"
    /\ \E pair \in select_pair(recipes).pairs :
          \E o \in crossover(recipes[pair[1]], recipes[pair[2]],
                             num_new_recipes, all_ingredients) :
             /\ o.err /= "none"
             /\ pc' = "failed_crossover"
             /\ err' = o.err
             /\ num_new_recipes' = o.num
    /\ UNCHANGED <<recipes, new_recipes, all_ingredients, generations, gen,
                   recipe, op, calls>>

\* line 258, and the return to the loop of run_genetic_algo
SurvivorSelection ==
    /\ pc = "run" /\ gen < generations /\ Len(new_recipes) = Len(recipes)
    /\ recipes' = fittest_half(recipes) \o fittest_half(new_recipes)
    /\ new_recipes' = <<>>
    /\ gen' = gen + 1
    /\ UNCHANGED <<num_new_recipes, all_ingredients, generations, pc, err,
                   recipe, op, calls>>

\* run_genetic_algo returns
RunDone ==
    /\ pc = "run" /\ gen = generations
    /\ pc' = "done"
    /\ UNCHANGED <<recipes, new_recipes, num_new_recipes, all_ingredients,
                   generations, gen, err, recipe, op, calls>>

Next == SelectFails \/ Offspring \/ CrossoverFails \/ SurvivorSelection \/ RunDone

Spec == Init /\ [][Next]_vars

(* ------------- a Recipe object driven through its methods -------------- *)

RECURSIVE SeqsUpTo(_, _)
\* the sequences over S of length at most n
SeqsUpTo(S, n) ==
    IF n = 0 THEN {<<>>}
    ELSE LET shorter == SeqsUpTo(S, n - 1)
         IN  shorter \cup {Append(s, x) : s \in shorter, x \in S}

\* the lines a Recipe is constructed from
UnitLines == {Line(amt, name) : amt \in {0, Cent, 50 * Oz, 100 * Oz}, name \in {"a", "b"}}

InitRecipe ==
    /\ \E recipe_strs \in SeqsUpTo(UnitLines, MaxLines) :
          recipe = make_ingredient_objects(recipe_strs)
    /\ all_ingredients \in SUBSET {"a", "b"}
    /\ op = "Recipe"
    /\ calls = 0
    /\ err = "none"
    /\ recipes = <<>>
    /\ new_recipes = <<>>
    /\ num_new_recipes = 1
    /\ generations = 0
    /\ gen = 0
    /\ pc = "unit"

\* the call name on the Recipe, with outcome o
Call(name, o) ==
    /\ recipe' = o.ingredients
    /\ err' = o.err
    /\ op' = name
    /\ calls' = calls + 1
    /\ UNCHANGED <<recipes, new_recipes, num_new_recipes, all_ingredients,
                   generations, gen, pc>>

CanCall == pc = "unit" /\ err = "none" /\ calls < MaxCalls

ChangeAmount == CanCall /\ \E o \in change_amount(recipe) : Call("change_amount", o)

AddIngredient ==
    CanCall /\ \E o \in add_ingredient(recipe, all_ingredients) : Call("add_ingredient", o)

DeleteIngredient == CanCall /\ \E o \in delete_ingredient(recipe) : Call("delete_ingredient", o)

SwapIngredient ==
    CanCall /\ \E o \in swap_ingredient(recipe, all_ingredients) : Call("swap_ingredient", o)

Normalize == CanCall /\ Call("normalize", normalize(recipe))

Mutate == CanCall /\ \E o \in mutate(recipe, all_ingredients) : Call("mutate", o)

NextRecipe ==
    ChangeAmount \/ AddIngredient \/ DeleteIngredient \/ SwapIngredient
        \/ Normalize \/ Mutate

SpecRecipe == InitRecipe /\ [][NextRecipe]_vars

(* ------------------------------ claims --------------------------------- *)

NoDuplicateNames(ings) == Cardinality(NamesOf(ings)) = Len(ings)

RECURSIVE MaxFit(_, _)
\* the largest fitness among the first k recipes (0 for none)
MaxFit(rs, k) ==
    IF k = 0 THEN 0
    ELSE LET m == MaxFit(rs, k - 1)
             f == get_fitness(rs[k].ingredients)
         IN  IF f > m THEN f ELSE m

Failed == {"failed_select", "failed_crossover"}

\* C1 as stated: a generation step that completes on n recipes leaves
\* floor(n/2) + floor(n/2) recipes, so the population size never increases.
C1_FloorSplit ==
    [][gen' = gen + 1 =>
          /\ Len(recipes') = 2 * (Len(recipes) \div 2)
          /\ Len(recipes') <= Len(recipes)]_vars

\* C1 amended: a generation step that completes on n recipes leaves
\* ceil(n/2) + ceil(n/2) recipes (each upper half starts at index floor(n/2)),
\* so the population size never decreases.
C1_CeilSplit ==
    [][gen' = gen + 1 =>
          /\ Len(recipes') = 2 * (Len(recipes) - (Len(recipes) \div 2))
          /\ Len(recipes') >= Len(recipes)]_vars

\* C1 witness: the first generation of three seed recipes and their three
\* offspring has four recipes.
C1_Witness == gen = 1 /\ num_new_recipes = 6 /\ Len(recipes) = 4

\* C2 as stated: between generations no recipe of the population holds two
\* ingredients of the same name.
C2_UniqueNames ==
    (pc \in {"run", "done"} /\ new_recipes = <<>>) =>
        \A k \in 1..Len(recipes) : NoDuplicateNames(recipes[k].ingredients)

\* C3 as stated: add_ingredient leaves the recipe unchanged when no name of
\* the inspiring set is absent from it, and otherwise appends one ingredient
\* whose name is in the inspiring set and was not in the recipe.
C3_AddNeverDuplicates ==
    [][op' = "add_ingredient" /\ calls' = calls + 1 =>
          \/ /\ all_ingredients \ NamesOf(recipe) = {}
             /\ recipe' = recipe
          \/ /\ Len(recipe') = Len(recipe) + 1
             /\ SubSeq(recipe', 1, Len(recipe)) = recipe
             /\ recipe'[Len(recipe')].name \in all_ingredients \ NamesOf(recipe)]_vars

\* C4 as stated: normalize on a recipe whose amounts sum to zero raises
\* nothing and leaves the recipe unchanged.
C4_ZeroTotalNoOp ==
    [][op' = "normalize" /\ calls' = calls + 1 /\ Sum(recipe, Len(recipe)) = 0 =>
          err' = "none" /\ recipe' = recipe]_vars

\* C5 as stated: change_amount, delete_ingredient and swap_ingredient on a
\* recipe without ingredients raise nothing and leave it empty.
C5_EmptyNoOp ==
    [][/\ recipe = <<>>
       /\ calls' = calls + 1
       /\ op' \in {"change_amount", "delete_ingredient", "swap_ingredient"}
       => err' = "none" /\ recipe' = <<>>]_vars

\* C6 as stated: parent selection on a population of total fitness zero or of
\* fewer than 2 recipes ends the generation in a DegenerateSelection failure.
C6_DegenerateSelection ==
    [][/\ InLoop
       /\ (SumFit(recipes, Len(recipes)) = 0 \/ Len(recipes) < 2)
       => pc' = "failed_select" /\ err' = "DegenerateSelection"]_vars

\* C7 as stated: with at least 2 recipes and positive total fitness parent
\* selection returns two recipes, it does not fail.
C7_SelectsTwo ==
    [][/\ InLoop
       /\ Len(recipes) >= 2
       /\ SumFit(recipes, Len(recipes)) > 0
       => pc' # "failed_select"]_vars

\* C8: a generation step that fails leaves the population as it was, and
\* inside the loop the population is not touched: each iteration only
\* appends its offspring to the collected list.
C8_Atomic ==
    [][/\ (pc' \in Failed => recipes' = recipes)
       /\ (InLoop => recipes' = recipes)
       /\ (InLoop /\ pc' = "run" =>
              /\ Len(new_recipes') = Len(new_recipes) + 1
              /\ SubSeq(new_recipes', 1, Len(new_recipes)) = new_recipes)]_vars

\* C8 witness: a mutation failed in the second generation after an offspring
\* had been collected, and the population of that generation is in place.
C8_Witness ==
    /\ pc = "failed_crossover"
    /\ gen = 1
    /\ new_recipes # <<>>
    /\ Len(recipes) >= 2

RECURSIVE ScaledKept(_, _, _)
\* the names and scaled amounts of the ingredients from position i on whose
\* scaled amount is at least 0.01
ScaledKept(ings, i, total) ==
    IF i > Len(ings) THEN <<>>
    ELSE LET new_amt == Scaled(ings[i].amount, total)
         IN  IF new_amt < Cent
             THEN ScaledKept(ings, i + 1, total)
             ELSE <<[name |-> ings[i].name, amount |-> new_amt]>>
                      \o ScaledKept(ings, i + 1, total)

NameAmounts(ings) == [i \in 1..Len(ings) |-> [name |-> ings[i].name, amount |-> ings[i].amount]]

\* C9 as stated: normalize on a total that is neither zero nor 100 removes
\* every ingredient whose scaled amount is below 0.01 and sets every other
\* ingredient to its scaled amount.
C9_ScaleAndPrune ==
    [][/\ op' = "normalize" /\ calls' = calls + 1
       /\ Sum(recipe, Len(recipe)) \notin {0, Hundred, NaN}
       => /\ err' = "none"
          /\ NameAmounts(recipe') = ScaledKept(recipe, 1, Sum(recipe, Len(recipe)))]_vars

\* C10: a generation step that completes on a non-empty population carries
\* its fittest recipe over unmodified, so the largest fitness in the
\* population does not decrease.
C10_Elitism ==
    [][gen' = gen + 1 /\ recipes # <<>> =>
          /\ MaxFit(recipes', Len(recipes')) >= MaxFit(recipes, Len(recipes))
          /\ \E k \in 1..Len(recipes') :
                /\ recipes'[k] \in {recipes[j] : j \in 1..Len(recipes)}
                /\ get_fitness(recipes'[k].ingredients) = MaxFit(recipes, Len(recipes))]_vars

\* C10 witness: after a generation the seed recipe with two ingredients is
\* still in the population and is strictly fitter than the surviving
\* offspring.
C10_Witness ==
    /\ gen = 1
    /\ Len(recipes) = 2
    /\ recipes[1].id = 1
    /\ get_fitness(recipes[1].ingredients) = 2
    /\ get_fitness(recipes[2].ingredients) < 2

====
